---- MODULE Spec2Model ----
(***************************************************************************)
(* clippy_config/src/metadata.rs: the metadata record of one configuration *)
(* option (ClippyConfiguration), the parser of its doc comment             *)
(* (parse_config_field_doc), the identifier normaliser (to_kebab) and the  *)
(* two markdown renderings.                                                *)
(*                                                                         *)
(* A text (Rust String / &str) is a sequence of characters, a character    *)
(* being a one-character string (the backtick is the string BT).  All      *)
(* texts of the model are ASCII, so a byte offset of the source is a       *)
(* character offset here.  Offsets are 0-based as in the source; SubSeq is *)
(* 1-based.  The carriage return is in no alphabet of the model, so        *)
(* lines() is a split at line feeds.                                       *)
(***************************************************************************)
EXTENDS Integers, Sequences, FiniteSets, TLC

VARIABLES
    args,       \* the arguments of ClippyConfiguration::new
    pc,         \* "start", "constructed", or "panicked" after an unwinding panic
    parsed,     \* what parse_config_field_doc returned inside new
    self,       \* the ClippyConfiguration record
    paragraph,  \* outcome of self.to_markdown_paragraph()
    link        \* outcome of self.to_markdown_link()

vars == <<args, pc, parsed, self, paragraph, link>>

(***************************************************************************)
(* Bounds of the explored inputs.                                          *)
(***************************************************************************)
\* longest generated text between the marker and the terminator
MaxRegion == 5
\* longest generated text after the terminator (and longest unstructured tail)
MaxProse == 5
\* longest generated raw identifier
MaxIdent == 4

(***************************************************************************)
(* Option<T>, and the outcome of a call that may panic.                    *)
(***************************************************************************)
None == [some |-> FALSE]

Some(v) == [some |-> TRUE, val |-> v]

NotCalled == [called |-> FALSE]

Returned(t) == [called |-> TRUE, panicked |-> FALSE, text |-> t]

Panicked == [called |-> TRUE, panicked |-> TRUE]

(***************************************************************************)
(* Literals of the source.                                                 *)
(***************************************************************************)
\* the backtick, which a TLA+ string cannot hold
BT == "BACKTICK"

DOC_START ==
    <<" ","L","i","n","t",":"," ">>

MALFORMED ==
    <<"[","E","R","R","O","R","]"," ","M","A","L","F","O","R","M","E","D"," ","D","O","C",
      " ","C","O","M","M","E","N","T">>

BOOK_CONFIGS_PATH ==
    <<"h","t","t","p","s",":","/","/","d","o","c",".","r","u","s","t","-","l","a","n","g",
      ".","o","r","g","/","c","l","i","p","p","y","/","l","i","n","t","_","c","o","n","f",
      "i","g","u","r","a","t","i","o","n",".","h","t","m","l">>

LINT_INDEX_URL ==
    <<"h","t","t","p","s",":","/","/","r","u","s","t","-","l","a","n","g",".","g","i","t",
      "h","u","b",".","i","o","/","r","u","s","t","-","c","l","i","p","p","y","/","m","a",
      "s","t","e","r","/","i","n","d","e","x",".","h","t","m","l","#">>

\* the pieces of the format string of to_markdown_paragraph, between its {}
ParaHead ==
    <<"#","#"," ",BT>>

ParaAfterName ==
    <<BT,"\n">>

ParaDefault ==
    <<"\n","\n","*","*","D","e","f","a","u","l","t"," ","V","a","l","u","e",":","*","*"," ",
      BT>>

ParaType ==
    <<BT," ","(",BT>>

ParaLints ==
    <<BT,")","\n","\n","-","-","-","\n","*","*","A","f","f","e","c","t","e","d"," ","l",
      "i","n","t","s",":","*","*","\n">>

ParaEnd ==
    <<"\n","\n">>

NL == <<"\n">>

(***************************************************************************)
(* The str / String methods the source calls.                              *)
(***************************************************************************)
UpperCase ==
    <<"A","B","C","D","E","F","G","H","I","J","K","L","M","N","O","P","Q","R","S","T","U",
      "V","W","X","Y","Z">>

LowerCase ==
    <<"a","b","c","d","e","f","g","h","i","j","k","l","m","n","o","p","q","r","s","t","u",
      "v","w","x","y","z">>

\* u8::to_ascii_lowercase
to_ascii_lowercase(ch) ==
    IF \E i \in 1..Len(UpperCase) : UpperCase[i] = ch
    THEN LowerCase[CHOOSE i \in 1..Len(UpperCase) : UpperCase[i] = ch]
    ELSE ch

\* String::make_ascii_lowercase
make_ascii_lowercase(s) ==
    [i \in 1..Len(s) |-> to_ascii_lowercase(s[i])]

\* char::is_whitespace, on ASCII
is_whitespace(ch) == ch \in {" ", "\n", "\t", "\r"}

\* str::starts_with
starts_with(s, p) ==
    Len(s) >= Len(p) /\ SubSeq(s, 1, Len(p)) = p

\* str::rfind: the offset of the last occurrence (used by a mutant only)
rfind(s, p) ==
    LET hits == {i \in 0..(Len(s) - Len(p)) : SubSeq(s, i + 1, i + Len(p)) = p}
    IN  IF hits = {} THEN None
        ELSE Some(CHOOSE i \in hits : \A j \in hits : j <= i)

\* str::find: the offset of the first occurrence of the pattern p
find(s, p) ==
    LET hits == {i \in 0..(Len(s) - Len(p)) : SubSeq(s, i + 1, i + Len(p)) = p}
    IN  IF hits = {} THEN None
        ELSE Some(CHOOSE i \in hits : \A j \in hits : i <= j)

\* String::split_off(at): <<what stays in the string, what is returned>>
split_off(s, at) ==
    <<SubSeq(s, 1, at), SubSeq(s, at + 1, Len(s))>>

RECURSIVE split_skip_empty(_, _)
\* a split that drops empty pieces (used by a mutant only)
split_skip_empty(s, p) ==
    LET at == find(s, p)
        piece == IF at.some THEN SubSeq(s, 1, at.val) ELSE s
        here == IF piece = <<>> THEN <<>> ELSE <<piece>>
    IN  IF at.some
        THEN here \o split_skip_empty(SubSeq(s, at.val + Len(p) + 1, Len(s)), p)
        ELSE here

RECURSIVE split(_, _)
\* str::split(pattern), collected: the pieces between the occurrences of p,
\* found left to right; a text without p is its own single piece
split(s, p) ==
    LET at == find(s, p)
    IN  IF at.some
        THEN <<SubSeq(s, 1, at.val)>> \o split(SubSeq(s, at.val + Len(p) + 1, Len(s)), p)
        ELSE <<s>>

RECURSIVE trim_start_matches(_, _)
\* str::trim_start_matches(char)
trim_start_matches(s, ch) ==
    IF s # <<>> /\ Head(s) = ch THEN trim_start_matches(Tail(s), ch) ELSE s

RECURSIVE trim_start(_)
trim_start(s) ==
    IF s # <<>> /\ is_whitespace(Head(s)) THEN trim_start(Tail(s)) ELSE s

RECURSIVE trim_end(_)
trim_end(s) ==
    IF s # <<>> /\ is_whitespace(s[Len(s)]) THEN trim_end(SubSeq(s, 1, Len(s) - 1)) ELSE s

\* str::trim
trim(s) == trim_end(trim_start(s))

RECURSIVE replace_run(_, _, _)
\* a replace that takes the spaces after an occurrence with it (used by a
\* mutant only)
replace_run(s, from, to) ==
    LET at == find(s, from)
    IN  IF at.some
        THEN SubSeq(s, 1, at.val) \o to
             \o replace_run(trim_start_matches(SubSeq(s, at.val + Len(from) + 1, Len(s)), " "),
                            from, to)
        ELSE s

\* str::replacen(from, to, 1) (used by a mutant only)
replace_first(s, from, to) ==
    LET at == find(s, from)
    IN  IF at.some
        THEN SubSeq(s, 1, at.val) \o to \o SubSeq(s, at.val + Len(from) + 1, Len(s))
        ELSE s

RECURSIVE replace(_, _, _)
\* str::replace: every non-overlapping occurrence, left to right
replace(s, from, to) ==
    LET at == find(s, from)
    IN  IF at.some
        THEN SubSeq(s, 1, at.val) \o to
             \o replace(SubSeq(s, at.val + Len(from) + 1, Len(s)), from, to)
        ELSE s

\* str::lines, collected: the text split at line feeds, a final empty piece dropped
lines(s) ==
    LET parts == split(s, NL)
    IN  IF parts[Len(parts)] = <<>> THEN SubSeq(parts, 1, Len(parts) - 1) ELSE parts

\* str::strip_prefix
strip_prefix(s, p) ==
    IF starts_with(s, p) THEN Some(SubSeq(s, Len(p) + 1, Len(s))) ELSE None

\* Option::unwrap_or
unwrap_or(opt, dflt) == IF opt.some THEN opt.val ELSE dflt

RECURSIVE join(_, _)
\* [T]::join(separator)
join(ss, sep) ==
    IF ss = <<>> THEN <<>>
    ELSE IF Len(ss) = 1 THEN ss[1]
    ELSE ss[1] \o sep \o join(Tail(ss), sep)

\* str::split_whitespace().next(): the first maximal run of non-whitespace
split_whitespace_next(s) ==
    LET t == trim_start(s)
        stop == {i \in 1..Len(t) : is_whitespace(t[i])}
    IN  IF t = <<>> THEN None
        ELSE IF stop = {} THEN Some(t)
        ELSE Some(SubSeq(t, 1, (CHOOSE i \in stop : \A j \in stop : i <= j) - 1))

(***************************************************************************)
(* The functions of metadata.rs.                                           *)
(***************************************************************************)
\* the mutant: only the first '_' is replaced
to_kebab_first(config_name) == replace_first(config_name, <<"_">>, <<"-">>)

to_kebab(config_name) == replace(config_name, <<"_">>, <<"-">>)

\* the mutant: the last '.' is taken for the terminator
find_terminator_last(doc_comment) == rfind(doc_comment, <<".">>)

\* the mutant: a comment without '.' ends its lint list at its end
find_terminator_or_end(doc_comment) ==
    Some(unwrap_or(find(doc_comment, <<".">>), Len(doc_comment)))

\* the position of the terminator: doc_comment.find('.')
find_terminator(doc_comment) == find(doc_comment, <<".">>)

\* doc_comment.starts_with(DOC_START)
has_marker(doc_comment) == starts_with(doc_comment, DOC_START)

\* the mutant: empty names are dropped
split_lints_skip_empty(names) == split_skip_empty(names, <<",", " ">>)

\* the lint names: .split(", ") of what follows the marker
split_lints(names) == split(names, <<",", " ">>)

\* the mutant: the whole run of spaces after a line feed becomes four spaces
indent_run(documentation) ==
    replace_run(documentation, <<"\n", " ">>, <<"\n", " ", " ", " ", " ">>)

\* the re-indentation: .replace("\n ", "\n    ")
indent(documentation) ==
    replace(documentation, <<"\n", " ">>, <<"\n", " ", " ", " ", " ">>)

\* the mutant: nothing is trimmed
trim_documentation_not(documentation) == documentation

\* the trimming of the documentation: .trim()
trim_documentation(documentation) == trim(documentation)

parse_config_field_doc(doc_comment) ==
    LET split_pos == find_terminator(doc_comment)
    IN  IF has_marker(doc_comment) /\ split_pos.some
        THEN LET cut == split_off(doc_comment, split_pos.val)
                 lowered == make_ascii_lowercase(cut[1])
                 lints == split_lints(split_off(lowered, Len(DOC_START))[2])
                 documentation ==
                     indent(trim_documentation(trim_start_matches(cut[2], ".")))
             IN  Some(<<lints, documentation>>)
        ELSE None

\* ClippyConfiguration::new
ClippyConfiguration_new(a) ==
    LET r == unwrap_or(parse_config_field_doc(a.doc_comment), <<<<>>, MALFORMED>>)
    IN  [name |-> to_kebab(a.name),
         lints |-> r[1],
         doc |-> r[2],
         config_type |-> a.config_type,
         default |-> a.default,
         deprecation_reason |-> a.deprecation_reason]

\* #[derive(Default)]: the record before new has run
ClippyConfiguration_default ==
    [name |-> <<>>, lints |-> <<>>, doc |-> <<>>, config_type |-> <<>>,
     default |-> <<>>, deprecation_reason |-> None]

\* the description argument of the format: prefix-stripped lines, joined
stripped_doc(doc) ==
    LET ls == lines(doc)
    IN  join([i \in 1..Len(ls) |-> unwrap_or(strip_prefix(ls[i], <<" ", " ", " ", " ">>), ls[i])],
             NL)

\* one bullet of the affected lints
bullet(name) ==
    <<"*", " ", "[", BT>> \o name \o <<BT, "]", "(">> \o LINT_INDEX_URL \o name \o <<")">>

\* ClippyConfiguration::to_markdown_paragraph; next().unwrap() panics on a
\* name without a token
to_markdown_paragraph(r) ==
    LET tokens == [i \in 1..Len(r.lints) |-> split_whitespace_next(r.lints[i])]
    IN  IF \E i \in 1..Len(r.lints) : ~tokens[i].some
        THEN Panicked
        ELSE Returned(ParaHead \o r.name \o ParaAfterName \o stripped_doc(r.doc)
                      \o ParaDefault \o r.default \o ParaType \o r.config_type \o ParaLints
                      \o join([i \in 1..Len(r.lints) |-> bullet(tokens[i].val)], NL)
                      \o ParaEnd)

\* ClippyConfiguration::to_markdown_link
to_markdown_link(r) ==
    Returned(<<"[", BT>> \o r.name \o <<BT, "]", ":", " ">> \o BOOK_CONFIGS_PATH
             \o <<"#">> \o r.name)

(***************************************************************************)
(* The inputs.                                                             *)
(***************************************************************************)
Texts(alphabet, n) == UNION {[1..k -> alphabet] : k \in 0..n}

\* characters of a lint list: a letter, and the two characters of the separator
RegionChars == {"A", ",", " "}

\* characters of the prose: a letter, the two kinds of whitespace, the terminator
ProseChars == {"A", " ", "\n", "."}

IdentChars == {"a", "_", "-"}

Regions == Texts(RegionChars, MaxRegion)

Proses == Texts(ProseChars, MaxProse)

RegionSamples == {<<>>, <<"A">>, <<"A", ",", " ", "A", " ", "A">>}

ProseSamples == {<<>>, <<" ", "A">>, <<".", " ", "A", "\n", " ", "A", "\n", "A", " ">>}

\* no marker; the marker as the documentation of the parser writes it; the marker
Prefixes == {<<>>, <<"L","i","n","t",":"," ">>, DOC_START}

Scenario3 ==
    <<" ","L","i","n","t",":"," ","F","O","O","_","B","A","R",","," ","B","A","Z","."," ",
      "T","h","i","s"," ","d","o","e","s"," ","a"," ","t","h","i","n","g",".","\n"," "," ",
      " "," ","W","i","t","h"," ","d","e","t","a","i","l",".">>

\* the call in the documentation of parse_config_field_doc
DocExample ==
    <<"L","i","n","t",":"," ","L","I","N","T","_","N","A","M","E","_","1",","," ","L","I",
      "N","T","_","N","A","M","E","_","2","."," ","P","a","p","a"," ","p","e","n","g","u",
      "i","n",","," ","p","a","p","a"," ","p","e","n","g","u","i","n">>

FooBarLint ==
    <<" ","L","i","n","t",":"," ","F","O","O","_","B","A","R"," ","l","i","n","t","."," ",
      "A">>

MaxLineLength ==
    <<"m","a","x","_","l","i","n","e","_","l","e","n","g","t","h">>

Comments ==
    {DOC_START \o r \o <<".">> \o p : r \in Regions, p \in ProseSamples}
    \cup {DOC_START \o r \o <<".">> \o p : r \in RegionSamples, p \in Proses}
    \cup {pre \o p : pre \in Prefixes, p \in Proses}
    \cup {Scenario3, DocExample, FooBarLint}

Identifiers == Texts(IdentChars, MaxIdent) \cup {MaxLineLength}

Arguments(name, doc_comment) ==
    [name |-> name,
     config_type |-> <<"u", "6", "4">>,
     default |-> <<"7">>,
     doc_comment |-> doc_comment,
     deprecation_reason |-> None]

(***************************************************************************)
(* The state machine: a record is built once, then rendered on demand.     *)
(***************************************************************************)
Init ==
    /\ \/ \E c \in Comments : args = Arguments(MaxLineLength, c)
       \/ \E n \in Identifiers : args = Arguments(n, Scenario3)
    /\ pc = "start"
    /\ parsed = None
    /\ self = ClippyConfiguration_default
    /\ paragraph = NotCalled
    /\ link = NotCalled

New ==
    /\ pc = "start"
    /\ parsed' = parse_config_field_doc(args.doc_comment)
    /\ self' = ClippyConfiguration_new(args)
    /\ pc' = "constructed"
    /\ UNCHANGED <<args, paragraph, link>>

ToMarkdownParagraph ==
    /\ pc = "constructed"
    /\ ~paragraph.called
    /\ paragraph' = to_markdown_paragraph(self)
    /\ pc' = IF paragraph'.panicked THEN "panicked" ELSE pc
    /\ UNCHANGED <<args, parsed, self, link>>

ToMarkdownLink ==
    /\ pc = "constructed"
    /\ ~link.called
    /\ link' = to_markdown_link(self)
    /\ UNCHANGED <<args, pc, parsed, self, paragraph>>

Next == New \/ ToMarkdownParagraph \/ ToMarkdownLink

Spec == Init /\ [][Next]_vars

(***************************************************************************)
(* Vocabulary of the properties, stated on positions of the texts rather   *)
(* than by the calls of the source.                                        *)
(***************************************************************************)
Comment == args.doc_comment

Min(S) == CHOOSE i \in S : \A j \in S : i <= j

Max(S) == CHOOSE i \in S : \A j \in S : j <= i

RECURSIVE Concat(_)
Concat(ss) == IF ss = <<>> THEN <<>> ELSE Head(ss) \o Concat(Tail(ss))

Contains(s, p) == \E i \in 0..(Len(s) - Len(p)) : \A j \in 1..Len(p) : s[i + j] = p[j]

BeginsWith(s, p) == Len(p) <= Len(s) /\ \A j \in 1..Len(p) : s[j] = p[j]

EndsWith(s, p) == Len(p) <= Len(s) /\ \A j \in 1..Len(p) : s[Len(s) - Len(p) + j] = p[j]

HasMarker == BeginsWith(Comment, DOC_START)

HasDot == \E i \in 1..Len(Comment) : Comment[i] = "."

\* the text after the first '.' of the comment
AfterTerminator ==
    SubSeq(Comment, Min({i \in 1..Len(Comment) : Comment[i] = "."}) + 1, Len(Comment))

WithoutLeadingDots(s) ==
    LET keep == {i \in 1..Len(s) : s[i] # "."}
    IN  IF keep = {} THEN <<>> ELSE SubSeq(s, Min(keep), Len(s))

Trimmed(s) ==
    LET keep == {i \in 1..Len(s) : ~is_whitespace(s[i])}
    IN  IF keep = {} THEN <<>> ELSE SubSeq(s, Min(keep), Max(keep))

\* a space that follows a line feed becomes four spaces
Reindented(s) ==
    Concat([i \in 1..Len(s) |->
               IF i > 1 /\ s[i - 1] = "\n" /\ s[i] = " "
               THEN <<" ", " ", " ", " ">> ELSE <<s[i]>>])

Description(prose) == Reindented(Trimmed(WithoutLeadingDots(prose)))

Lowered(names) ==
    [j \in 1..Len(names) |-> [i \in 1..Len(names[j]) |-> to_ascii_lowercase(names[j][i])]]

\* the positions of region at which a ", " starts
Separators(region) ==
    {p \in 1..(Len(region) - 1) : region[p] = "," /\ region[p + 1] = " "}

\* region cut at the separators S: the names of which region is the join
PiecesAt(region, S) ==
    LET n == Cardinality(S)
        nth(j) == CHOOSE p \in S : Cardinality({q \in S : q < p}) = j - 1
    IN  [j \in 1..(n + 1) |->
            SubSeq(region, IF j = 1 THEN 1 ELSE nth(j - 1) + 2,
                           IF j = n + 1 THEN Len(region) ELSE nth(j) - 1)]

\* the comment is marker + names joined by ", " + "." + prose, no name holding
\* a '.' or a ", "
WellFormed(names, prose) ==
    /\ Comment = DOC_START \o join(names, <<",", " ">>) \o <<".">> \o prose
    /\ \A j \in 1..Len(names) :
           ~Contains(names[j], <<".">>) /\ ~Contains(names[j], <<",", " ">>)

\* every way of reading the comment as marker + one or more names + "." + prose
Readings ==
    UNION {{<<PiecesAt(SubSeq(Comment, Len(DOC_START) + 1, k - 1), S),
              SubSeq(Comment, k + 1, Len(Comment))>> :
                S \in SUBSET Separators(SubSeq(Comment, Len(DOC_START) + 1, k - 1))} :
           k \in {i \in (Len(DOC_START) + 1)..Len(Comment) : Comment[i] = "."}}

WellFormedReadings == {r \in Readings : WellFormed(r[1], r[2])}

\* the first whitespace-delimited token of a name that has one
FirstToken(name) ==
    LET from == Min({i \in 1..Len(name) : ~is_whitespace(name[i])})
        to == Max({j \in from..Len(name) : \A i \in from..j : ~is_whitespace(name[i])})
    IN  SubSeq(name, from, to)

HasToken(name) == \E i \in 1..Len(name) : ~is_whitespace(name[i])

ExpectedBullet(name) ==
    <<"*", " ", "[", BT>> \o FirstToken(name) \o <<BT, "]", "(">>
    \o LINT_INDEX_URL \o FirstToken(name) \o <<")">>

\* the affected-lints section and the end of the paragraph
ExpectedLintsSection ==
    ParaLints \o join([i \in 1..Len(self.lints) |-> ExpectedBullet(self.lints[i])], NL)
    \o ParaEnd

\* the lines of the trimmed prose, one leading space taken off each line after
\* the first that begins with a space
ExpectedShownLines ==
    LET ls == lines(Trimmed(WithoutLeadingDots(AfterTerminator)))
    IN  [i \in 1..Len(ls) |->
            IF i > 1 /\ ls[i] # <<>> /\ ls[i][1] = " " THEN Tail(ls[i]) ELSE ls[i]]

\* the heading and the description of the paragraph, up to the default value
ExpectedDescriptionSection ==
    ParaHead \o self.name \o ParaAfterName \o join(ExpectedShownLines, NL) \o ParaDefault

OnlyDotsThenBlanks(s) ==
    \E j \in 0..Len(s) :
        /\ \A i \in 1..j : s[i] = "."
        /\ \A i \in (j + 1)..Len(s) : is_whitespace(s[i])

FooBar == <<"f","o","o","_","b","a","r">>

Baz == <<"b","a","z">>

FourSpaceDescription ==
    <<"T","h","i","s"," ","d","o","e","s"," ","a"," ","t","h","i","n","g",".","\n"," "," ",
      " "," ","W","i","t","h"," ","d","e","t","a","i","l",".">>

SevenSpaceDescription ==
    <<"T","h","i","s"," ","d","o","e","s"," ","a"," ","t","h","i","n","g",".","\n"," "," ",
      " "," "," "," "," ","W","i","t","h"," ","d","e","t","a","i","l",".">>

LintName1 == <<"l","i","n","t","_","n","a","m","e","_","1">>

LintName2 == <<"l","i","n","t","_","n","a","m","e","_","2">>

PapaPenguin ==
    <<"P","a","p","a"," ","p","e","n","g","u","i","n",","," ","p","a","p","a"," ","p","e",
      "n","g","u","i","n">>

MaxLineLengthKebab ==
    <<"m","a","x","-","l","i","n","e","-","l","e","n","g","t","h">>

(***************************************************************************)
(* The properties.                                                         *)
(***************************************************************************)

\* C1: for every comment that reads as marker + names joined by ", " + "." +
\* prose (one or more names, none holding '.' or ", "), the parser returns
\* exactly those names, ASCII-lowercased and in order, and the prose with its
\* leading '.' removed, then trimmed, then every line feed + space rewritten
\* to line feed + four spaces.
C1_WellFormedCommentParses ==
    pc # "start" =>
        \A r \in WellFormedReadings : parsed = Some(<<Lowered(r[1]), Description(r[2])>>)

\* C1 witness: a parsed comment of two different names, one in upper case, whose
\* prose is changed by each of the three steps.
C1_Witness ==
    /\ pc # "start"
    /\ \E r \in WellFormedReadings :
           /\ Len(r[1]) >= 2
           /\ r[1][1] # r[1][2]
           /\ Lowered(r[1]) # r[1]
           /\ WithoutLeadingDots(r[2]) # r[2]
           /\ Trimmed(WithoutLeadingDots(r[2])) # WithoutLeadingDots(r[2])
           /\ Description(r[2]) # Trimmed(WithoutLeadingDots(r[2]))

C3_AsStated ==
    pc # "start" /\ Comment = Scenario3 =>
        parsed = Some(<<<<FooBar, Baz>>, FourSpaceDescription>>)

\* C3 amended: the scenario comment parses to the lints foo_bar, baz and a
\* description whose continuation line is indented by seven spaces: the line
\* feed and the first space become line feed + four spaces, the other three
\* spaces stay.
C3_SevenSpaces ==
    pc # "start" /\ Comment = Scenario3 =>
        parsed = Some(<<<<FooBar, Baz>>, SevenSpaceDescription>>)

\* C3 witness: the record of the scenario comment is built.
C3_Witness ==
    pc = "constructed" /\ Comment = Scenario3 /\ parsed.some

\* C4 as stated: whenever the comment starts with the marker and holds a '.',
\* the description of the record is not empty.
C4_AsStated ==
    pc # "start" /\ HasMarker /\ HasDot => self.doc # <<>>

\* C4 amended: whenever the comment starts with the marker and holds a '.',
\* parsing succeeds, and the description is empty exactly when what follows
\* the first '.' is a run of '.' followed by a run of whitespace (either may
\* be empty); otherwise it is not empty.
C4_EmptyExactlyWhenNoProse ==
    pc # "start" /\ HasMarker /\ HasDot =>
        /\ parsed.some
        /\ self.doc = parsed.val[2]
        /\ (self.doc = <<>>) <=> OnlyDotsThenBlanks(AfterTerminator)

\* C4 witness: a record whose comment has '.' and whitespace after the
\* terminator and nothing else, and whose description is empty.
C4_Witness ==
    /\ pc # "start" /\ HasMarker /\ HasDot
    /\ Contains(AfterTerminator, <<".">>)
    /\ Contains(AfterTerminator, <<" ">>)
    /\ self.doc = <<>>

\* C5: the record has no lints if and only if the parser returned no result;
\* a successful parse gives at least one lint, also when nothing stands between
\* the marker and the terminator.
C5_NoLintsIffParseFailed ==
    pc # "start" =>
        /\ (self.lints = <<>>) <=> (parsed = None)
        /\ parsed.some => Len(parsed.val[1]) >= 1 /\ self.lints = parsed.val[1]

\* C5 witness: a successful parse of a comment with nothing between the marker
\* and the terminator.
C5_Witness ==
    /\ pc # "start"
    /\ BeginsWith(Comment, DOC_START \o <<".">>)
    /\ parsed.some
    /\ self.lints = << <<>> >>

\* C6: both renderings of every record that new produces return a text and
\* never abort, also when a lint name is empty or only whitespace.
C6_RenderingNeverAborts ==
    /\ paragraph.called => ~paragraph.panicked
    /\ link.called => ~link.panicked

\* C7: the affected-lints section of the paragraph holds one bullet per lint of
\* the record, in order, separated by line feeds, each bullet linking the first
\* whitespace-delimited token of the lint.
C7_OneBulletPerLint ==
    paragraph.called =>
        /\ ~paragraph.panicked
        /\ EndsWith(paragraph.text, ExpectedLintsSection)

\* C8: the call of the documentation of parse_config_field_doc yields the
\* result that documentation gives.
C8_DocumentedExample ==
    pc # "start" /\ Comment = DocExample =>
        parsed = Some(<<<<LintName1, LintName2>>, PapaPenguin>>)

\* C9: to_kebab keeps the length, puts '-' where the identifier has '_' and
\* keeps every other character; applied to its own result it changes nothing;
\* max_line_length becomes max-line-length.
C9_KebabCase ==
    pc # "start" =>
        /\ Len(self.name) = Len(args.name)
        /\ \A i \in 1..Len(args.name) :
               self.name[i] = IF args.name[i] = "_" THEN "-" ELSE args.name[i]
        /\ to_kebab(self.name) = self.name
        /\ args.name = MaxLineLength => self.name = MaxLineLengthKebab

\* C9 witness: a record whose raw identifier has two '_' and another character.
C9_Witness ==
    /\ pc # "start"
    /\ Cardinality({i \in 1..Len(args.name) : args.name[i] = "_"}) >= 2
    /\ \E i \in 1..Len(args.name) : args.name[i] # "_"
    /\ self.name # args.name

\* C10: for every comment that parses, the paragraph shows the lines of the
\* trimmed prose with exactly one leading space taken off each line after the
\* first that begins with a space, every other line unchanged.
C10_OneSpaceUndone ==
    paragraph.called /\ parsed.some =>
        /\ ~paragraph.panicked
        /\ BeginsWith(paragraph.text, ExpectedDescriptionSection)

(***************************************************************************)
(* What the renderings do when they return (C7 and C10 fail only where the *)
(* paragraph rendering panics).                                            *)
(***************************************************************************)
\* a paragraph that is returned ends with one bullet per lint, as C7 says
BulletsWhenReturned ==
    paragraph.called /\ ~paragraph.panicked =>
        EndsWith(paragraph.text, ExpectedLintsSection)

\* a paragraph that is returned for a parsed comment shows the lines C10 says
DescriptionWhenReturned ==
    paragraph.called /\ ~paragraph.panicked /\ parsed.some =>
        BeginsWith(paragraph.text, ExpectedDescriptionSection)

\* the paragraph rendering panics exactly when a lint has no token
PanicsExactlyOnTokenlessLint ==
    paragraph.called =>
        (paragraph.panicked <=> \E i \in 1..Len(self.lints) : ~HasToken(self.lints[i]))

\* a returned paragraph with a lint of two tokens and a rewritten description
RenderedWitness ==
    /\ paragraph.called /\ ~paragraph.panicked /\ parsed.some
    /\ \E i \in 1..Len(self.lints) : FirstToken(self.lints[i]) # self.lints[i]
    /\ Contains(self.doc, <<"\n", " ", " ", " ", " ">>)

====
